---- MODULE Spec2Model ----
(***************************************************************************)
(* The SSMS message exchange of src/protocol.py: Send.process (initiator)  *)
(* and Receive.process (responder) over two byte streams, with the cipher  *)
(* calls of src/crypto.py.                                                 *)
(***************************************************************************)
EXTENDS Integers, Sequences, FiniteSets, TLC

(* ------------------------------------------------------------------ *)
(* ErrorCodes (protocol.py 17-67)                                       *)
(* ------------------------------------------------------------------ *)
OK == 0
NotSupportedParams == 1
Internal == 2
KeyNotShared == 3
UnexpectedType == 4
NullIV == 5
DataError == 6

error_types ==
    [c \in 0..6 |-> CASE c = 0 -> "OK"
                      [] c = 1 -> "NotSupportedParams"
                      [] c = 2 -> "Internal"
                      [] c = 3 -> "KeyNotShared"
                      [] c = 4 -> "UnexpectedType"
                      [] c = 5 -> "NullIV"
                      [] c = 6 -> "DataError"]

\* An exception object (or none): the class raised and, for ErrorCodes, its code.
NoException == [exc |-> "None", code |-> -1]
KeyError == [exc |-> "KeyError", code |-> -1]
\* RuntimeError('socket connection broken') of networking.py lines 29 and 46
RuntimeError == [exc |-> "RuntimeError", code |-> -1]
ValueError == [exc |-> "ValueError", code |-> -1]

\* ErrorCodes(code): the constructor raises KeyError for a code not in error_types.
ErrorCodes(code) ==
    IF code \in DOMAIN error_types
    THEN [exc |-> "ErrorCodes", code |-> code]
    ELSE KeyError

IsErrorCodes(e) == e.exc = "ErrorCodes"

(* ------------------------------------------------------------------ *)
(* Message types and registries (protocol.py 71-113)                    *)
(* ------------------------------------------------------------------ *)
ParReq == 0
ParConf == 1
Dados == 2
Lista == 3
Conf == 4

alg_to_code ==
    [n \in {"AES128", "AES192", "AES256", "DES", "3DES-EDE2", "3DES-EDE3"} |->
        CASE n = "AES128" -> 0
          [] n = "AES192" -> 1
          [] n = "AES256" -> 2
          [] n = "DES" -> 3
          [] n = "3DES-EDE2" -> 4
          [] n = "3DES-EDE3" -> 5]

code_to_alg ==
    [c \in 0..5 |->
        CASE c = 0 -> "AES128"
          [] c = 1 -> "AES192"
          [] c = 2 -> "AES256"
          [] c = 3 -> "DES"
          [] c = 4 -> "3DES-EDE2"
          [] c = 5 -> "3DES-EDE3"]

mode_to_code ==
    [n \in {"ECB", "CBC", "CFB8", "CTR"} |->
        CASE n = "ECB" -> 0
          [] n = "CBC" -> 1
          [] n = "CFB8" -> 3
          [] n = "CTR" -> 6]

\* code_to_mode with 'CFB8' entered under 2, the code of the commented-out 'CFB1'
code_to_mode_cfb8_at_2 ==
    [c \in {0, 1, 2, 6} |->
        CASE c = 0 -> "ECB"
          [] c = 1 -> "CBC"
          [] c = 2 -> "CFB8"
          [] c = 6 -> "CTR"]

code_to_mode ==
    [c \in {0, 1, 3, 6} |->
        CASE c = 0 -> "ECB"
          [] c = 1 -> "CBC"
          [] c = 3 -> "CFB8"
          [] c = 6 -> "CTR"]

(* ------------------------------------------------------------------ *)
(* Bytes                                                                *)
(* ------------------------------------------------------------------ *)
Byte == 0..255

\* b'' and the value of an attribute that holds None or was never set.
EmptyBytes == <<>>
None == <<-1>>

Repeat(b, n) == [i \in 1..n |-> b]

\* byte_to_bitstring: the eight binary digits of one byte, most significant first.
byte_to_bitstring(b) == [i \in 1..8 |-> (b \div (2 ^ (8 - i))) % 2]

\* int(s, base=2) of a string of four binary digits
int_base2(bits) == 8 * bits[1] + 4 * bits[2] + 2 * bits[3] + bits[4]

\* int(eight_bits[:4], base=2) and int(eight_bits[4:], base=2)
HighNibble(b) == int_base2(SubSeq(byte_to_bitstring(b), 1, 4))
LowNibble(b) == int_base2(SubSeq(byte_to_bitstring(b), 5, 8))

\* int.from_bytes(data, 'big') of the one or two bytes the code passes
int_from_bytes(data) ==
    IF Len(data) = 1 THEN data[1] ELSE 256 * data[1] + data[2]

\* struct.pack('>B', t << 4 | c) for a type t and a code c below 16
Header(type, code) == <<type * 16 + code>>

\* struct.pack('<H', x): the low byte first
PackH_little_endian(x) == <<x % 256, x \div 256>>

\* struct.pack('>H', x) for x in 0..65535
PackH(x) == <<x \div 256, x % 256>>

(* ------------------------------------------------------------------ *)
(* crypto.py: the cipher collaborator                                   *)
(* ------------------------------------------------------------------ *)
\* A call's result: the exception it raised (or NoException) and its value.
Returned(v) == [raised |-> NoException, value |-> v]
Raised(e) == [raised |-> e, value |-> EmptyBytes]

\* enabled_algorithms: the library class and the key size the code asserts.
enabled_algorithms ==
    [n \in DOMAIN alg_to_code |->
        CASE n = "AES128" -> [class |-> "AES", key_size |-> 128]
          [] n = "AES192" -> [class |-> "AES", key_size |-> 192]
          [] n = "AES256" -> [class |-> "AES", key_size |-> 256]
          [] n = "DES" -> [class |-> "TripleDES", key_size |-> 64]
          [] n = "3DES-EDE2" -> [class |-> "TripleDES", key_size |-> 128]
          [] n = "3DES-EDE3" -> [class |-> "TripleDES", key_size |-> 192]]

\* The key sizes (bits) the library class accepts; any other raises in alg_select['class'](key).
class_key_sizes(class) == IF class = "AES" THEN {128, 192, 256} ELSE {64, 128, 192}

\* alg_obj.key_size: AES keeps the key, TripleDES expands an 8 or 16 byte key to 24 bytes.
alg_obj_key_size(class, key) == IF class = "AES" THEN Len(key) * 8 ELSE 192

\* The cipher's block size in bytes.
block_bytes(class) == IF class = "AES" THEN 16 ELSE 8

\* What of a key or an iv the stand-in cipher depends on: its ends and its length
Digest(data) == IF data = <<>> THEN 0 ELSE data[1] + 3 * data[Len(data)] + Len(data)

\* build_cipher: wrong key size raises ErrorCodes(NotSupportedParams) (lines 38-43); the
\* Cipher constructor rejects a CBC/CFB8/CTR iv whose length is not the block size (line 46).
build_cipher(key, iv, alg, mode) ==
    LET alg_select == enabled_algorithms[alg]
    IN  IF \/ Len(key) * 8 \notin class_key_sizes(alg_select.class)
           \/ alg_obj_key_size(alg_select.class, key) # alg_select.key_size
        THEN [raised |-> ErrorCodes(NotSupportedParams), class |-> alg_select.class, stream |-> 0]
        ELSE IF mode # "ECB" /\ Len(iv) # block_bytes(alg_select.class)
        THEN [raised |-> ValueError, class |-> alg_select.class, stream |-> 0]
        ELSE [raised |-> NoException,
              class |-> alg_select.class,
              stream |-> (Digest(key) + (IF mode = "ECB" THEN 0 ELSE Digest(iv))) % 256]

\* ECB and CBC take whole blocks only: finalize() raises ValueError on a partial block.
WholeBlocksOnly(mode) == mode \in {"ECB", "CBC"}

\* encryptor.update(data) + encryptor.finalize(): a keyed, iv-dependent byte permutation.
cipher_encrypt(cipher, mode, data) ==
    IF WholeBlocksOnly(mode) /\ Len(data) % block_bytes(cipher.class) # 0
    THEN Raised(ValueError)
    ELSE Returned([i \in 1..Len(data) |-> (data[i] + cipher.stream) % 256])

\* decryptor.update(data) + decryptor.finalize(): the inverse permutation.
cipher_decrypt(cipher, mode, data) ==
    IF WholeBlocksOnly(mode) /\ Len(data) % block_bytes(cipher.class) # 0
    THEN Raised(ValueError)
    ELSE Returned([i \in 1..Len(data) |-> (data[i] + 256 - cipher.stream) % 256])

\* PKCS7(128).padder(): 1..16 bytes, each holding the pad length.
padder_pkcs5(data) ==
    LET n == 16 - (Len(data) % 16)
    IN  data \o Repeat(n, n)

\* PKCS7(128).unpadder(): ValueError unless the data is a positive number of whole
\* blocks ending in a valid pad.
unpadder_pkcs5(data) ==
    IF Len(data) = 0 \/ Len(data) % 16 # 0
    THEN Raised(ValueError)
    ELSE LET n == data[Len(data)]
         IN  IF /\ n \in 1..16
                /\ \A i \in (Len(data) - n + 1)..Len(data) : data[i] = n
             THEN Returned(SubSeq(data, 1, Len(data) - n))
             ELSE Raised(ValueError)

\* encrypt(data, key, iv, alg, mode, pkcs5): pkcs5 is the caller's bool
encrypt(data, key, iv, alg, mode, pkcs5) ==
    LET padded == IF pkcs5 THEN padder_pkcs5(data) ELSE data
        cipher == build_cipher(key, iv, alg, mode)
    IN  IF cipher.raised # NoException
        THEN Raised(cipher.raised)
        ELSE cipher_encrypt(cipher, mode, padded)

\* decrypt with the unpadding of lines 73-74 left out
decrypt_no_unpad(data, key, iv, alg, mode, pkcs5) ==
    LET cipher == build_cipher(key, iv, alg, mode)
    IN  IF cipher.raised # NoException
        THEN Raised(cipher.raised)
        ELSE cipher_decrypt(cipher, mode, data)

\* decrypt(data, key, iv, alg, mode, pkcs5): pkcs5 is the 0/1 flag read from the wire
decrypt(data, key, iv, alg, mode, pkcs5) ==
    LET cipher == build_cipher(key, iv, alg, mode)
        ret == IF cipher.raised # NoException
               THEN Raised(cipher.raised)
               ELSE cipher_decrypt(cipher, mode, data)
    IN  IF ret.raised # NoException
        THEN ret
        ELSE IF pkcs5 # 0 THEN unpadder_pkcs5(ret.value) ELSE ret

(* ------------------------------------------------------------------ *)
(* State                                                                *)
(* ------------------------------------------------------------------ *)
VARIABLES
    conn,      \* the socket both ends share: "open", or "broken" once conn.send
               \* accepts no byte and conn.recv returns b'' after the bytes in flight
    call,      \* a call of Connection.receive in progress: its arguments and locals
    env,       \* who takes part: "exchange" (Send and Receive), "initiator" (Send
               \* against an arbitrary peer), "responder" (Receive against one),
               \* "receive" (one call of Connection.receive)
    args,      \* the arguments Send is constructed with
    snd,       \* the Send object and where Send.process stands
    rcv,       \* the Receive object and where Receive.process stands
    c2s,       \* bytes sent towards the responder and not yet received by it
    s2c,       \* bytes sent towards the initiator and not yet received by it
    out_send,  \* the messages Send has passed to Connection.send, in order
    out_recv   \* the messages Receive has passed to Connection.send, in order

vars == <<conn, call, env, args, snd, rcv, c2s, s2c, out_send, out_recv>>

(* ------------------------------------------------------------------ *)
(* networking.py: Connection                                            *)
(* ------------------------------------------------------------------ *)
\* Connection.receive(conn, msg_size) returns once msg_size bytes have arrived.
CanReceive(stream, msg_size) == Len(stream) >= msg_size
Received(stream, msg_size) == SubSeq(stream, 1, msg_size)
AfterReceive(stream, msg_size) == SubSeq(stream, msg_size + 1, Len(stream))

\* Connection.send(conn, msg) puts every byte of msg on the stream.
AfterSend(stream, msg) == stream \o msg

\* Connection.send(conn, msg) raises RuntimeError (lines 28-29): a broken connection
\* accepts no byte; the loop is not entered for an empty msg.
SendRaises(msg) == conn = "broken" /\ Len(msg) > 0

\* Connection.receive(conn, msg_size) raises RuntimeError (lines 45-46): conn.recv
\* returns b'' when the connection is broken and the stream holds no more bytes.
ReceiveRaises(stream, msg_size) == conn = "broken" /\ ~CanReceive(stream, msg_size)

\* No call of Connection.receive is in progress.
NoCall == [pc |-> "idle", msg_size |-> 0, msg |-> <<>>, stream |-> <<>>, reads |-> 0]

(* ------------------------------------------------------------------ *)
(* Protocol (protocol.py 115-329)                                       *)
(* ------------------------------------------------------------------ *)
MaxMessage == 1440

\* An object of class Protocol before __init__ has run. Beside the attributes: pc, where
\* process() stands; header, header2 and body, the header bytes and the ParReq body it
\* has read; payload, the Dados or Lista payload it has read; error, the ErrorCodes of
\* the header in hand; raised and raised_in, the exception process() ended with and
\* the step that raised it; broken_in, the transport call ("send" or "receive") whose
\* RuntimeError ended process().
Blank(role) ==
    [role |-> role, pc |-> "new", key |-> None, source_id |-> -1, dest_id |-> -1,
     algorithm |-> "", algorithm_mode |-> "", algorithm_code |-> -1,
     algorithm_mode_code |-> -1, pkcs5 |-> -1, iv |-> None, message |-> None,
     header |-> -1, header2 |-> -1, body |-> <<>>, error |-> NoException,
     payload_size |-> -1, payload |-> None, recv_list |-> <<>>,
     raised |-> NoException, raised_in |-> "", broken_in |-> ""]

\* the length test of line 143 written with >=
TooLong_off_by_one(msg) == Len(msg) >= MaxMessage

\* len(msg) > 1440
TooLong(msg) == Len(msg) > MaxMessage

\* Protocol.__init__ as Send.__init__ calls it: algorithm is the pair of names
\* algorithm.split(',') yields.
Protocol_init_send(obj, a) ==
    LET set == [obj EXCEPT !.key = a.key, !.source_id = a.source_id,
                           !.dest_id = a.dest_id,
                           !.algorithm = a.algorithm[1],
                           !.algorithm_mode = a.algorithm[2],
                           !.algorithm_code = alg_to_code[a.algorithm[1]],
                           !.algorithm_mode_code = mode_to_code[a.algorithm[2]],
                           !.pkcs5 = a.pkcs5, !.iv = EmptyBytes]
    IN  IF TooLong(a.msg)
        THEN [set EXCEPT !.pc = "failed", !.raised = ErrorCodes(Internal),
                         !.raised_in = "init"]
        ELSE [set EXCEPT !.pc = "par_req_send", !.message = a.msg]

\* Protocol.__init__ as Receive.__init__ calls it: key only.
Protocol_init_receive(obj, key) ==
    [obj EXCEPT !.pc = "par_req_recv", !.key = key, !.iv = EmptyBytes]

\* first_byte_check building the ErrorCodes before it compares the type, as
\* par_conf_OR_lista_recv does
first_byte_check_code_first(expected_type, data) ==
    LET e == ErrorCodes(LowNibble(data))
    IN  IF ~IsErrorCodes(e)
        THEN [raised |-> e, error |-> NoException]
        ELSE IF HighNibble(data) # expected_type
        THEN [raised |-> ErrorCodes(UnexpectedType), error |-> NoException]
        ELSE [raised |-> NoException, error |-> e]

\* first_byte_check on the byte read: UnexpectedType on a type mismatch, else the
\* ErrorCodes built from the low nibble (KeyError when it is not a code).
first_byte_check(expected_type, data) ==
    IF HighNibble(data) # expected_type
    THEN [raised |-> ErrorCodes(UnexpectedType), error |-> NoException]
    ELSE LET e == ErrorCodes(LowNibble(data))
         IN  IF IsErrorCodes(e)
             THEN [raised |-> NoException, error |-> e]
             ELSE [raised |-> e, error |-> NoException]

BoolToInt(b) == IF b THEN 1 ELSE 0

\* par_req_send: struct.pack('>BHHBB', ...)
par_req_data(obj) ==
    Header(ParReq, OK) \o PackH(obj.source_id) \o PackH(obj.dest_id)
        \o <<obj.algorithm_code * 16 + BoolToInt(obj.pkcs5)>>
        \o <<obj.algorithm_mode_code>>

\* par_conf_send appending bytes other than the self.iv it stored (a second draw)
par_conf_data_second_draw(iv) == Header(ParConf, OK) \o [i \in 1..Len(iv) |-> (iv[i] + 1) % 256]

\* par_conf_send's bytes for the iv drawn
par_conf_data(iv) == Header(ParConf, OK) \o iv

\* conf_send with the two nibbles in each other's place: error.code << 4 | self.Conf
conf_data_nibbles_swapped(error) == Header(error.code, Conf)

\* conf_send's byte
conf_data(error) == Header(Conf, error.code)

\* b'0' * 16
AsciiZeros == Repeat(48, 16)

\* par_req_recv_body without the padding flag test of lines 199-200
par_req_recv_body_no_padding_check(obj, data) ==
    LET ids == [obj EXCEPT !.body = data,
                           !.source_id = int_from_bytes(SubSeq(data, 1, 2)),
                           !.dest_id = int_from_bytes(SubSeq(data, 3, 4))]
        alg == HighNibble(data[5])
        padding == LowNibble(data[5])
        mode == int_from_bytes(SubSeq(data, 6, 6))
        withPad == [ids EXCEPT !.algorithm = code_to_alg[alg], !.algorithm_code = alg,
                               !.pkcs5 = padding]
    IN  IF alg \notin DOMAIN code_to_alg
        THEN [ids EXCEPT !.raised = ErrorCodes(NotSupportedParams)]
        ELSE IF mode \notin DOMAIN code_to_mode
        THEN [withPad EXCEPT !.raised = ErrorCodes(NotSupportedParams)]
        ELSE [withPad EXCEPT !.algorithm_mode = code_to_mode[mode],
                             !.algorithm_mode_code = mode]

\* par_req_recv after the header: the six body bytes decoded and validated in the
\* code's order; the attributes assigned before a raise stay assigned.
par_req_recv_body(obj, data) ==
    LET ids == [obj EXCEPT !.body = data,
                           !.source_id = int_from_bytes(SubSeq(data, 1, 2)),
                           !.dest_id = int_from_bytes(SubSeq(data, 3, 4))]
        alg == HighNibble(data[5])
        padding == LowNibble(data[5])
        mode == int_from_bytes(SubSeq(data, 6, 6))
        withAlg == [ids EXCEPT !.algorithm = code_to_alg[alg], !.algorithm_code = alg]
        withPad == [withAlg EXCEPT !.pkcs5 = padding]
    IN  IF alg \notin DOMAIN code_to_alg
        THEN [ids EXCEPT !.raised = ErrorCodes(NotSupportedParams)]
        ELSE IF padding \notin {0, 1}
        THEN [withAlg EXCEPT !.raised = ErrorCodes(NotSupportedParams)]
        ELSE IF mode \notin DOMAIN code_to_mode
        THEN [withPad EXCEPT !.raised = ErrorCodes(NotSupportedParams)]
        ELSE [withPad EXCEPT !.algorithm_mode = code_to_mode[mode],
                             !.algorithm_mode_code = mode]

\* par_conf_recv without the test of the header's code (lines 221-222)
par_conf_recv_ignores_error(obj, data) ==
    IF data = AsciiZeros
    THEN [obj EXCEPT !.iv = data, !.raised = ErrorCodes(NullIV)]
    ELSE [obj EXCEPT !.iv = data]

\* par_conf_recv(error) on the 16 bytes read
par_conf_recv(obj, data) ==
    IF obj.error # ErrorCodes(OK)
    THEN [obj EXCEPT !.raised = ErrorCodes(Internal)]
    ELSE IF data = AsciiZeros
    THEN [obj EXCEPT !.iv = data, !.raised = ErrorCodes(NullIV)]
    ELSE [obj EXCEPT !.iv = data]

\* lista_recv's loop over the payload: the options decoded, or KeyError from a
\* code_to_alg lookup (the mode byte is looked up in code_to_alg too).
RECURSIVE lista_decode(_)
lista_decode(payload) ==
    IF Len(payload) < 2
    THEN [raised |-> NoException, value |-> <<>>]
    ELSE LET alg == HighNibble(payload[1])
             padding == LowNibble(payload[1])
             mode == payload[2]
             rest == lista_decode(SubSeq(payload, 3, Len(payload)))
         IN  IF alg \notin DOMAIN code_to_alg \/ mode \notin DOMAIN code_to_alg
             THEN [raised |-> KeyError, value |-> <<>>]
             ELSE IF rest.raised # NoException
             THEN rest
             ELSE [raised |-> NoException,
                   value |-> <<[algorithm |-> code_to_alg[alg],
                                padding |-> (padding = 1),
                                algorithm_mode |-> code_to_alg[mode]]>> \o rest.value]

\* dados_send: the bytes packed and the exception re-raised after sending them
dados_send(obj) ==
    LET enc == encrypt(obj.message, obj.key, obj.iv, obj.algorithm,
                       obj.algorithm_mode, obj.pkcs5)
        payload == IF enc.raised = NoException THEN enc.value ELSE EmptyBytes
        err == IF enc.raised = NoException THEN OK ELSE Internal
    IN  [data |-> Header(Dados, err) \o PackH(Len(payload)) \o payload,
         raised |-> enc.raised]

\* dados_recv_payload without the try of lines 265-273: decrypt's exception leaves
\* dados_recv as it is
dados_recv_payload_no_try(obj, payload) ==
    LET dec == decrypt(payload, obj.key, obj.iv, obj.algorithm,
                       obj.algorithm_mode, obj.pkcs5)
    IN  IF dec.raised # NoException
        THEN [obj EXCEPT !.payload = payload, !.raised = dec.raised]
        ELSE [obj EXCEPT !.payload = payload, !.message = dec.value]

\* dados_recv after the length: the payload decrypted into _message, or DataError
dados_recv_payload(obj, payload) ==
    LET dec == decrypt(payload, obj.key, obj.iv, obj.algorithm,
                       obj.algorithm_mode, obj.pkcs5)
    IN  IF dec.raised # NoException
        THEN [obj EXCEPT !.payload = payload, !.raised = ErrorCodes(DataError)]
        ELSE [obj EXCEPT !.payload = payload, !.message = dec.value]

(* ------------------------------------------------------------------ *)
(* Send (protocol.py 357-380)                                           *)
(* ------------------------------------------------------------------ *)
\* Send.__init__
Send_init ==
    /\ snd.pc = "new"
    /\ snd' = Protocol_init_send(snd, args)
    /\ UNCHANGED <<conn, call, env, args, rcv, c2s, s2c, out_send, out_recv>>

\* the except clauses of lines 368 and 374 written `except Exception`
Send_except_any_exception(e) == <<conf_data(ErrorCodes(Internal))>>

\* The messages Send.process sends when exception e leaves one of its two try
\* blocks: `except ErrorCodes` sends Conf(Internal); any other exception passes by.
Send_except(e) ==
    IF IsErrorCodes(e) THEN <<conf_data(ErrorCodes(Internal))>> ELSE <<>>

\* Send.process ends by raising e, after sending msgs (the Conf of an except clause,
\* or nothing). Connection.send raising in the except clause replaces e.
Send_raise(obj, e, msgs) ==
    LET broke == msgs # <<>> /\ SendRaises(msgs[1])
    IN  /\ snd' = [obj EXCEPT !.pc = "failed",
                              !.raised = IF broke THEN RuntimeError ELSE e,
                              !.raised_in = snd.pc,
                              !.broken_in = IF broke /\ obj.broken_in = ""
                                            THEN "send" ELSE obj.broken_in]
        /\ out_send' = out_send \o msgs
        /\ c2s' = IF msgs = <<>> \/ broke THEN c2s ELSE AfterSend(c2s, msgs[1])

\* line 362: par_req_send()
Send_par_req_send ==
    /\ snd.pc = "par_req_send"
    /\ IF SendRaises(par_req_data(snd))
       THEN /\ snd' = [snd EXCEPT !.pc = "failed", !.raised = RuntimeError,
                                 !.raised_in = snd.pc, !.broken_in = "send"]
            /\ c2s' = c2s
       ELSE /\ snd' = [snd EXCEPT !.pc = "par_conf_OR_lista_recv"]
            /\ c2s' = AfterSend(c2s, par_req_data(snd))
    /\ out_send' = Append(out_send, par_req_data(snd))
    /\ UNCHANGED <<conn, call, env, args, rcv, s2c, out_recv>>

\* lines 365, 317-329: the header byte of par_conf_OR_lista_recv
Send_par_conf_OR_lista_recv ==
    /\ snd.pc = "par_conf_OR_lista_recv"
    /\ CanReceive(s2c, 1)
    /\ s2c' = AfterReceive(s2c, 1)
    /\ LET data == Received(s2c, 1)[1]
           type_code == HighNibble(data)
           error == ErrorCodes(LowNibble(data))
           obj == [snd EXCEPT !.header = data]
       IN  IF ~IsErrorCodes(error)
           THEN Send_raise(obj, error, Send_except(error))
           ELSE IF type_code = ParConf
           THEN /\ snd' = [obj EXCEPT !.pc = "par_conf_recv", !.error = error]
                /\ UNCHANGED <<c2s, out_send>>
           ELSE IF type_code = Lista
           THEN /\ snd' = [obj EXCEPT !.pc = "lista_recv", !.error = error]
                /\ UNCHANGED <<c2s, out_send>>
           ELSE Send_raise([obj EXCEPT !.error = error], ErrorCodes(UnexpectedType),
                           Send_except(ErrorCodes(UnexpectedType)))
    /\ UNCHANGED <<conn, call, env, args, rcv, out_recv>>

\* lines 219-227 under the try of 364-370: the 16 iv bytes
Send_par_conf_recv ==
    /\ snd.pc = "par_conf_recv"
    /\ CanReceive(s2c, 16)
    /\ s2c' = AfterReceive(s2c, 16)
    /\ LET obj == par_conf_recv(snd, Received(s2c, 16))
       IN  IF obj.raised # NoException
           THEN Send_raise(obj, obj.raised, Send_except(obj.raised))
           ELSE /\ snd' = [obj EXCEPT !.pc = "dados_send"]
                /\ UNCHANGED <<c2s, out_send>>
    /\ UNCHANGED <<conn, call, env, args, rcv, out_recv>>

\* line 284: the length byte of a Lista
Send_lista_recv ==
    /\ snd.pc = "lista_recv"
    /\ CanReceive(s2c, 1)
    /\ s2c' = AfterReceive(s2c, 1)
    /\ snd' = [snd EXCEPT !.pc = "lista_recv_payload",
                          !.payload_size = int_from_bytes(Received(s2c, 1))]
    /\ UNCHANGED <<conn, call, env, args, rcv, c2s, out_send, out_recv>>

\* lines 285-306, then 366-370: the Lista payload decoded and `raise ret[0]`
Send_lista_recv_payload ==
    /\ snd.pc = "lista_recv_payload"
    /\ CanReceive(s2c, snd.payload_size)
    /\ s2c' = AfterReceive(s2c, snd.payload_size)
    /\ LET payload == Received(s2c, snd.payload_size)
           dec == lista_decode(payload)
           obj == [snd EXCEPT !.payload = payload]
       IN  IF dec.raised # NoException
           THEN Send_raise(obj, dec.raised, Send_except(dec.raised))
           ELSE Send_raise([obj EXCEPT !.recv_list = dec.value], snd.error,
                           Send_except(snd.error))
    /\ UNCHANGED <<conn, call, env, args, rcv, out_recv>>

\* lines 372-376: dados_send() and its except clause
Send_dados_send ==
    /\ snd.pc = "dados_send"
    /\ LET d == dados_send(snd)
       IN  IF SendRaises(d.data)
           THEN /\ snd' = [snd EXCEPT !.pc = "failed", !.raised = RuntimeError,
                                     !.raised_in = snd.pc, !.broken_in = "send"]
                /\ out_send' = out_send \o <<d.data>> \o Send_except(RuntimeError)
                /\ c2s' = c2s
           ELSE IF d.raised # NoException
           THEN /\ snd' = [snd EXCEPT !.pc = "failed", !.raised = d.raised,
                                     !.raised_in = snd.pc]
                /\ out_send' = out_send \o <<d.data>> \o Send_except(d.raised)
                /\ c2s' = IF Send_except(d.raised) = <<>>
                          THEN AfterSend(c2s, d.data)
                          ELSE AfterSend(AfterSend(c2s, d.data), Send_except(d.raised)[1])
           ELSE /\ snd' = [snd EXCEPT !.pc = "conf_recv"]
                /\ out_send' = Append(out_send, d.data)
                /\ c2s' = AfterSend(c2s, d.data)
    /\ UNCHANGED <<conn, call, env, args, rcv, s2c, out_recv>>

\* lines 378-380: conf_recv() and the final raise
Send_conf_recv ==
    /\ snd.pc = "conf_recv"
    /\ CanReceive(s2c, 1)
    /\ s2c' = AfterReceive(s2c, 1)
    /\ LET data == Received(s2c, 1)[1]
           chk == first_byte_check(Conf, data)
           obj == [snd EXCEPT !.header2 = data]
       IN  IF chk.raised # NoException
           THEN snd' = [obj EXCEPT !.pc = "failed", !.raised = chk.raised,
                                   !.raised_in = snd.pc]
           ELSE IF chk.error # ErrorCodes(OK)
           THEN snd' = [obj EXCEPT !.pc = "failed", !.raised = chk.error,
                                   !.raised_in = snd.pc]
           ELSE snd' = [obj EXCEPT !.pc = "done"]
    /\ UNCHANGED <<conn, call, env, args, rcv, c2s, out_send, out_recv>>

\* The msg_size of the Connection.receive call Send.process stands in
Send_receive_size(obj) ==
    CASE obj.pc = "par_conf_recv" -> 16
      [] obj.pc = "lista_recv_payload" -> obj.payload_size
      [] OTHER -> 1

\* Connection.receive raising RuntimeError in the receive Send.process stands in:
\* under the try of lines 364-370 up to the iv or the Lista, outside any try in
\* conf_recv (line 378)
Send_receive_broken ==
    /\ snd.pc \in {"par_conf_OR_lista_recv", "par_conf_recv", "lista_recv",
                   "lista_recv_payload", "conf_recv"}
    /\ ReceiveRaises(s2c, Send_receive_size(snd))
    /\ s2c' = <<>>
    /\ Send_raise([snd EXCEPT !.broken_in = "receive"], RuntimeError,
                  IF snd.pc = "conf_recv" THEN <<>> ELSE Send_except(RuntimeError))
    /\ UNCHANGED <<conn, call, env, args, rcv, out_recv>>

\* Send.process, one step
Send_process ==
    \/ Send_par_req_send
    \/ Send_par_conf_OR_lista_recv
    \/ Send_par_conf_recv
    \/ Send_lista_recv
    \/ Send_lista_recv_payload
    \/ Send_dados_send
    \/ Send_conf_recv

(* ------------------------------------------------------------------ *)
(* Receive (protocol.py 332-354)                                        *)
(* ------------------------------------------------------------------ *)
\* the except clause of lines 339-341 sending the exception caught, as 347-349 does
Receive_except_par_req_sends_e(e) ==
    IF IsErrorCodes(e) THEN <<conf_data(e)>> ELSE <<>>

\* What the except clause of lines 339-341 sends for exception e
Receive_except_par_req(e) ==
    IF IsErrorCodes(e) THEN <<conf_data(ErrorCodes(Internal))>> ELSE <<>>

\* the except clause of lines 347-349 re-raising without conf_send
Receive_except_dados_silent(e) == <<>>

\* What the except clause of lines 347-349 sends for exception e
Receive_except_dados(e) ==
    IF IsErrorCodes(e) THEN <<conf_data(e)>> ELSE <<>>

\* Receive.process ends by raising e, after sending msgs (the Conf of an except
\* clause, or nothing). Connection.send raising in the except clause replaces e.
Receive_raise(obj, e, msgs) ==
    LET broke == msgs # <<>> /\ SendRaises(msgs[1])
    IN  /\ rcv' = [obj EXCEPT !.pc = "failed",
                              !.raised = IF broke THEN RuntimeError ELSE e,
                              !.raised_in = rcv.pc,
                              !.broken_in = IF broke /\ obj.broken_in = ""
                                            THEN "send" ELSE obj.broken_in]
        /\ out_recv' = out_recv \o msgs
        /\ s2c' = IF msgs = <<>> \/ broke THEN s2c ELSE AfterSend(s2c, msgs[1])

\* lines 183-185 under the try of 337-341: the header byte of par_req_recv
Receive_par_req_recv ==
    /\ rcv.pc = "par_req_recv"
    /\ CanReceive(c2s, 1)
    /\ c2s' = AfterReceive(c2s, 1)
    /\ LET data == Received(c2s, 1)[1]
           chk == first_byte_check(ParReq, data)
           obj == [rcv EXCEPT !.header = data]
       IN  IF chk.raised # NoException
           THEN Receive_raise(obj, chk.raised, Receive_except_par_req(chk.raised))
           ELSE IF chk.error # ErrorCodes(OK)
           THEN Receive_raise(obj, ErrorCodes(Internal),
                              Receive_except_par_req(ErrorCodes(Internal)))
           ELSE /\ rcv' = [obj EXCEPT !.pc = "par_req_recv_body"]
                /\ UNCHANGED <<s2c, out_recv>>
    /\ UNCHANGED <<conn, call, env, args, snd, out_send>>

\* lines 187-208 under the same try: the six body bytes
Receive_par_req_recv_body ==
    /\ rcv.pc = "par_req_recv_body"
    /\ CanReceive(c2s, 6)
    /\ c2s' = AfterReceive(c2s, 6)
    /\ LET obj == par_req_recv_body(rcv, Received(c2s, 6))
       IN  IF obj.raised # NoException
           THEN Receive_raise(obj, obj.raised, Receive_except_par_req(obj.raised))
           ELSE /\ rcv' = [obj EXCEPT !.pc = "par_conf_send"]
                /\ UNCHANGED <<s2c, out_recv>>
    /\ UNCHANGED <<conn, call, env, args, snd, out_send>>

\* The values os.urandom(16) is taken to return: every byte 0x00, every byte the
\* character '0', and a mixed one.
IVs == {Repeat(0, 16), AsciiZeros, [i \in 1..16 |-> 17 * i - 17]}

\* line 343: par_conf_send()
Receive_par_conf_send ==
    /\ rcv.pc = "par_conf_send"
    /\ \E iv \in IVs :
          /\ IF SendRaises(par_conf_data(iv))
             THEN /\ rcv' = [rcv EXCEPT !.pc = "failed", !.iv = iv, !.raised = RuntimeError,
                                       !.raised_in = rcv.pc, !.broken_in = "send"]
                  /\ s2c' = s2c
             ELSE /\ rcv' = [rcv EXCEPT !.pc = "dados_recv", !.iv = iv]
                  /\ s2c' = AfterSend(s2c, par_conf_data(iv))
          /\ out_recv' = Append(out_recv, par_conf_data(iv))
    /\ UNCHANGED <<conn, call, env, args, snd, c2s, out_send>>

\* Receive_dados_recv with the error dados_recv returns (line 260) sent in a Conf
\* before it is raised, as the except clause of lines 347-349 does
Receive_dados_recv_confirms_error ==
    /\ rcv.pc = "dados_recv"
    /\ CanReceive(c2s, 1)
    /\ c2s' = AfterReceive(c2s, 1)
    /\ LET data == Received(c2s, 1)[1]
           chk == first_byte_check(Dados, data)
           obj == [rcv EXCEPT !.header2 = data]
       IN  IF chk.raised # NoException
           THEN Receive_raise(obj, chk.raised, Receive_except_dados(chk.raised))
           ELSE IF chk.error # ErrorCodes(OK)
           THEN Receive_raise(obj, chk.error, <<conf_data(chk.error)>>)
           ELSE /\ rcv' = [obj EXCEPT !.pc = "dados_recv_size", !.error = chk.error]
                /\ UNCHANGED <<s2c, out_recv>>
    /\ UNCHANGED <<conn, call, env, args, snd, out_send>>

\* lines 258-260 under the try of 345-352: the header byte of dados_recv
Receive_dados_recv ==
    /\ rcv.pc = "dados_recv"
    /\ CanReceive(c2s, 1)
    /\ c2s' = AfterReceive(c2s, 1)
    /\ LET data == Received(c2s, 1)[1]
           chk == first_byte_check(Dados, data)
           obj == [rcv EXCEPT !.header2 = data]
       IN  IF chk.raised # NoException
           THEN Receive_raise(obj, chk.raised, Receive_except_dados(chk.raised))
           ELSE IF chk.error # ErrorCodes(OK)
           THEN Receive_raise(obj, chk.error, <<>>)
           ELSE /\ rcv' = [obj EXCEPT !.pc = "dados_recv_size", !.error = chk.error]
                /\ UNCHANGED <<s2c, out_recv>>
    /\ UNCHANGED <<conn, call, env, args, snd, out_send>>

\* line 262: the payload length
Receive_dados_recv_size ==
    /\ rcv.pc = "dados_recv_size"
    /\ CanReceive(c2s, 2)
    /\ c2s' = AfterReceive(c2s, 2)
    /\ rcv' = [rcv EXCEPT !.pc = "dados_recv_payload",
                          !.payload_size = int_from_bytes(Received(c2s, 2))]
    /\ UNCHANGED <<conn, call, env, args, snd, s2c, out_send, out_recv>>

\* Receive_dados_recv_payload with the except clause of lines 347-349 not raising e
\* again: after conf_send(e) the process runs on to the conf_send of line 354
Receive_dados_recv_payload_no_reraise ==
    /\ rcv.pc = "dados_recv_payload"
    /\ CanReceive(c2s, rcv.payload_size)
    /\ c2s' = AfterReceive(c2s, rcv.payload_size)
    /\ LET obj == dados_recv_payload(rcv, Received(c2s, rcv.payload_size))
           msgs == Receive_except_dados(obj.raised) \o <<conf_data(ErrorCodes(OK))>>
       IN  IF SendRaises(conf_data(ErrorCodes(OK)))
           THEN /\ rcv' = [obj EXCEPT !.pc = "failed", !.raised = RuntimeError,
                                     !.raised_in = rcv.pc, !.broken_in = "send"]
                /\ s2c' = s2c
                /\ out_recv' = Append(out_recv, msgs[1])
           ELSE /\ rcv' = [obj EXCEPT !.pc = "done", !.raised = NoException]
                /\ s2c' = IF Len(msgs) = 2
                          THEN AfterSend(AfterSend(s2c, msgs[1]), msgs[2])
                          ELSE AfterSend(s2c, msgs[1])
                /\ out_recv' = out_recv \o msgs
    /\ UNCHANGED <<conn, call, env, args, snd, out_send>>

\* lines 263-275, then 347-354: the payload decrypted and the Conf sent
Receive_dados_recv_payload ==
    /\ rcv.pc = "dados_recv_payload"
    /\ CanReceive(c2s, rcv.payload_size)
    /\ c2s' = AfterReceive(c2s, rcv.payload_size)
    /\ LET obj == dados_recv_payload(rcv, Received(c2s, rcv.payload_size))
       IN  IF obj.raised # NoException
           THEN Receive_raise(obj, obj.raised, Receive_except_dados(obj.raised))
           ELSE IF SendRaises(conf_data(ErrorCodes(OK)))
           THEN /\ rcv' = [obj EXCEPT !.pc = "failed", !.raised = RuntimeError,
                                     !.raised_in = rcv.pc, !.broken_in = "send"]
                /\ s2c' = s2c
                /\ out_recv' = Append(out_recv, conf_data(ErrorCodes(OK)))
           ELSE /\ rcv' = [obj EXCEPT !.pc = "done"]
                /\ s2c' = AfterSend(s2c, conf_data(ErrorCodes(OK)))
                /\ out_recv' = Append(out_recv, conf_data(ErrorCodes(OK)))
    /\ UNCHANGED <<conn, call, env, args, snd, out_send>>

\* The msg_size of the Connection.receive call Receive.process stands in
Receive_receive_size(obj) ==
    CASE obj.pc = "par_req_recv_body" -> 6
      [] obj.pc = "dados_recv_size" -> 2
      [] obj.pc = "dados_recv_payload" -> obj.payload_size
      [] OTHER -> 1

\* Connection.receive raising RuntimeError in the receive Receive.process stands in:
\* under the try of lines 337-341 in par_req_recv, under that of 345-349 in dados_recv
Receive_receive_broken ==
    /\ rcv.pc \in {"par_req_recv", "par_req_recv_body", "dados_recv", "dados_recv_size",
                   "dados_recv_payload"}
    /\ ReceiveRaises(c2s, Receive_receive_size(rcv))
    /\ c2s' = <<>>
    /\ Receive_raise([rcv EXCEPT !.broken_in = "receive"], RuntimeError,
                     IF rcv.pc \in {"par_req_recv", "par_req_recv_body"}
                     THEN Receive_except_par_req(RuntimeError)
                     ELSE Receive_except_dados(RuntimeError))
    /\ UNCHANGED <<conn, call, env, args, snd, out_send>>

\* Receive.process, one step
Receive_process ==
    \/ Receive_par_req_recv
    \/ Receive_par_req_recv_body
    \/ Receive_par_conf_send
    \/ Receive_dados_recv
    \/ Receive_dados_recv_size
    \/ Receive_dados_recv_payload

(* ------------------------------------------------------------------ *)
(* Inputs                                                               *)
(* ------------------------------------------------------------------ *)
\* b'chave 1 de teste' (main.py 63), another 16-byte key and a 32-byte key
Key16 == <<99, 104, 97, 118, 101, 32, 49, 32, 100, 101, 32, 116, 101, 115, 116, 101>>
Keys == {Key16, Repeat(2, 16), Repeat(3, 32)}

\* Plaintexts: empty, b'hello', b'hello' padded to a block by the caller, and the
\* longest accepted and shortest rejected lengths.
Hello == <<104, 101, 108, 108, 111>>
Pattern(n) == [i \in 1..n |-> (i * 7) % 256]
Msgs == {EmptyBytes, Hello, Hello \o Repeat(32, 11), Pattern(MaxMessage), Pattern(MaxMessage + 1)}

IdPairs == {<<1, 2>>, <<65535, 258>>}

Algorithms == (DOMAIN alg_to_code) \X (DOMAIN mode_to_code)

SendArgs ==
    {[key |-> k, source_id |-> ids[1], dest_id |-> ids[2], algorithm |-> a,
      pkcs5 |-> p, msg |-> m] :
        k \in Keys, ids \in IdPairs, a \in Algorithms, p \in BOOLEAN, m \in Msgs}

\* The constructions run against an arbitrary peer.
SoloArgs ==
    {a \in SendArgs :
        /\ a.key = Key16
        /\ <<a.source_id, a.dest_id>> = <<1, 2>>
        /\ Len(a.msg) \in {5, 16}
        /\ a.algorithm \in {<<"AES128", "ECB">>, <<"AES128", "CBC">>,
                            <<"AES256", "CFB8">>, <<"3DES-EDE3", "ECB">>}}

NoArgs == [key |-> None, source_id |-> -1, dest_id |-> -1, algorithm |-> <<"", "">>,
           pkcs5 |-> FALSE, msg |-> None]

\* What an arbitrary peer may put on the stream for the receive the initiator is in.
MaxListaEntries == 2
ListaFirst == {0, 81, 96}
ListaSecond == {0, 3, 6}

RECURSIVE ListaPayloads(_)
ListaPayloads(n) ==
    IF n = 0
    THEN {<<>>}
    ELSE {<<f, s>> \o rest : f \in ListaFirst, s \in ListaSecond, rest \in ListaPayloads(n - 1)}

InitiatorInput(obj) ==
    CASE obj.pc \in {"par_conf_OR_lista_recv", "conf_recv"} -> {<<b>> : b \in Byte}
      [] obj.pc = "par_conf_recv" -> IVs
      [] obj.pc = "lista_recv" -> {<<n>> : n \in {2 * k : k \in 0..MaxListaEntries} \cup {1}}
      [] obj.pc = "lista_recv_payload" ->
            IF obj.payload_size % 2 = 0
            THEN ListaPayloads(obj.payload_size \div 2)
            ELSE {Repeat(b, obj.payload_size) : b \in ListaFirst}
      [] OTHER -> {}

\* What an arbitrary peer may put on the stream for the receive the responder is in.
ParReqBodies ==
    {PackH(1) \o PackH(2) \o <<ap, m>> :
        ap \in {0, 1, 33, 81, 2, 96, 241}, m \in {0, 1, 2, 3, 6, 7, 255}}
PayloadSizes == {0, 5, 16}
PayloadFill == {0, 16, 255}

ResponderInput(obj) ==
    CASE obj.pc \in {"par_req_recv", "dados_recv"} -> {<<b>> : b \in Byte}
      [] obj.pc = "par_req_recv_body" -> ParReqBodies
      [] obj.pc = "dados_recv_size" -> {PackH(n) : n \in PayloadSizes}
      [] obj.pc = "dados_recv_payload" -> {Repeat(b, obj.payload_size) : b \in PayloadFill}
      [] OTHER -> {}

\* An arbitrary peer sends the initiator the bytes it is waiting for.
Peer_to_initiator ==
    /\ env = "initiator"
    /\ conn = "open"
    /\ s2c = <<>>
    /\ \E data \in InitiatorInput(snd) : s2c' = data
    /\ UNCHANGED <<conn, call, env, args, snd, rcv, c2s, out_send, out_recv>>

\* An arbitrary peer sends the responder the bytes it is waiting for.
Peer_to_responder ==
    /\ env = "responder"
    /\ conn = "open"
    /\ c2s = <<>>
    /\ \E data \in ResponderInput(rcv) : c2s' = data
    /\ UNCHANGED <<conn, call, env, args, snd, rcv, s2c, out_send, out_recv>>

\* The connection breaks: from now on conn.send accepts no byte, and conn.recv
\* returns b'' once the bytes already on the stream are read.
Connection_break ==
    /\ conn = "open"
    /\ conn' = "broken"
    /\ UNCHANGED <<call, env, args, snd, rcv, c2s, s2c, out_send, out_recv>>

\* A transport call of either process raising on the broken connection
Transport_failure ==
    \/ Send_receive_broken
    \/ Receive_receive_broken

(* ------------------------------------------------------------------ *)
(* Specification                                                        *)
(* ------------------------------------------------------------------ *)
Absent(role) == [Blank(role) EXCEPT !.pc = "absent"]

Init ==
    /\ env \in {"exchange", "initiator", "responder"}
    /\ conn = "open"
    /\ call = NoCall
    /\ c2s = <<>>
    /\ s2c = <<>>
    /\ out_send = <<>>
    /\ out_recv = <<>>
    /\ \/ /\ env = "exchange"
          /\ args \in SendArgs
          /\ snd = Blank("Send")
          /\ \E key \in Keys : rcv = Protocol_init_receive(Blank("Receive"), key)
       \/ /\ env = "initiator"
          /\ args \in SoloArgs
          /\ snd = Blank("Send")
          /\ rcv = Absent("Receive")
       \/ /\ env = "responder"
          /\ args = NoArgs
          /\ snd = Absent("Send")
          /\ \E key \in Keys : rcv = Protocol_init_receive(Blank("Receive"), key)

Next ==
    \/ Send_init
    \/ Send_process
    \/ Receive_process
    \/ Peer_to_initiator
    \/ Peer_to_responder
    \/ Connection_break
    \/ Transport_failure

Spec == Init /\ [][Next]_vars

\* The exchange of Send.process with Receive.process alone. Receive never sends a
\* Lista, so the two Lista steps of Send.process are no part of it.
ExchangeArgs == {a \in SendArgs : <<a.source_id, a.dest_id>> = <<1, 2>> /\ Len(a.msg) <= 16}

ExchangeInit ==
    /\ env = "exchange"
    /\ conn = "open"
    /\ call = NoCall
    /\ c2s = <<>>
    /\ s2c = <<>>
    /\ out_send = <<>>
    /\ out_recv = <<>>
    /\ args \in ExchangeArgs
    /\ snd = Blank("Send")
    /\ \E key \in Keys : rcv = Protocol_init_receive(Blank("Receive"), key)

Send_exchange ==
    \/ Send_init
    \/ Send_par_req_send
    \/ Send_par_conf_OR_lista_recv
    \/ Send_par_conf_recv
    \/ Send_dados_send
    \/ Send_conf_recv

ExchangeNext ==
    \/ Send_exchange
    \/ Receive_process

\* Each process runs on: a step it can take is eventually taken.
FairSpec ==
    /\ ExchangeInit
    /\ [][ExchangeNext]_vars
    /\ WF_vars(Send_exchange)
    /\ WF_vars(Receive_process)

\* The exchange again, over ids at the ends of 0..65535 and on both sides of a byte
\* boundary, every registered algorithm and mode, both padding flags, and one key
\* held by both ends: what one end encodes is what the other decodes.
CodecIds == {0, 255, 256, 65535}

CodecArgs ==
    {[key |-> k, source_id |-> s, dest_id |-> d, algorithm |-> a, pkcs5 |-> p, msg |-> m] :
        k \in {Key16, Repeat(3, 32)}, s \in CodecIds, d \in CodecIds, a \in Algorithms,
        p \in BOOLEAN, m \in {Hello, Hello \o Repeat(32, 11)}}

CodecInit ==
    /\ env = "exchange"
    /\ conn = "open"
    /\ call = NoCall
    /\ c2s = <<>>
    /\ s2c = <<>>
    /\ out_send = <<>>
    /\ out_recv = <<>>
    /\ args \in CodecArgs
    /\ snd = Blank("Send")
    /\ rcv = Protocol_init_receive(Blank("Receive"), args.key)

CodecSpec == CodecInit /\ [][ExchangeNext]_vars

(* ------------------------------------------------------------------ *)
(* Connection.receive (networking.py 32-49), one conn.recv at a time    *)
(* ------------------------------------------------------------------ *)
MaxChunk == 2048

\* call.reads counts the conn.recv calls of one Connection.receive up to this many
MaxReadsCounted == 2

Min(a, b) == IF a < b THEN a ELSE b

\* conn.recv asked for MaxChunk bytes whatever is still missing
recv_bufsize_whole_chunk(c) == MaxChunk

\* min(msg_size - len(msg), 2048)
recv_bufsize(c) == Min(c.msg_size - Len(c.msg), MaxChunk)

\* The lengths conn.recv(bufsize) may return while the stream holds avail > 0 bytes:
\* one byte, two, or as many as it may.
RecvLengths(bufsize, avail) == {k \in {1, 2, Min(bufsize, avail)} : k <= Min(bufsize, avail)}

\* One turn of the loop of lines 38-47: conn.recv returns a chunk of the bytes on the
\* stream, or b'' when the connection is broken and the stream is empty; it blocks
\* while the stream is empty and the connection open.
Connection_receive_recv ==
    /\ call.pc = "loop"
    /\ Len(call.msg) < call.msg_size
    /\ IF c2s # <<>>
       THEN \E k \in RecvLengths(recv_bufsize(call), Len(c2s)) :
               /\ call' = [call EXCEPT !.msg = call.msg \o SubSeq(c2s, 1, k),
                                       !.reads = Min(call.reads + 1, MaxReadsCounted)]
               /\ c2s' = SubSeq(c2s, k + 1, Len(c2s))
       ELSE /\ conn = "broken"
            /\ call' = [call EXCEPT !.pc = "raised",
                                    !.reads = Min(call.reads + 1, MaxReadsCounted)]
            /\ c2s' = c2s
    /\ UNCHANGED <<conn, env, args, snd, rcv, s2c, out_send, out_recv>>

\* line 49: the loop condition fails and msg is returned
Connection_receive_return ==
    /\ call.pc = "loop"
    /\ ~(Len(call.msg) < call.msg_size)
    /\ call' = [call EXCEPT !.pc = "returned"]
    /\ UNCHANGED <<conn, env, args, snd, rcv, c2s, s2c, out_send, out_recv>>

\* The msg_size values of the calls: none, a header, a length, a ParReq body, an iv,
\* and payloads one and two bytes beyond a whole chunk.
ReceiveSizes == {0, 1, 2, 6, 16, MaxChunk + 1, MaxChunk + 2}

\* What the peer has put on the stream
ReceiveStreams == {Pattern(n) : n \in {0, 1, 5, 16, 17, MaxChunk + 1, MaxChunk + 3}}

ReceiveInit ==
    /\ env = "receive"
    /\ conn = "open"
    /\ c2s \in ReceiveStreams
    /\ \E n \in ReceiveSizes :
          call = [pc |-> "loop", msg_size |-> n, msg |-> <<>>, stream |-> c2s, reads |-> 0]
    /\ args = NoArgs
    /\ snd = Absent("Send")
    /\ rcv = Absent("Receive")
    /\ s2c = <<>>
    /\ out_send = <<>>
    /\ out_recv = <<>>

ReceiveNext ==
    \/ Connection_receive_recv
    \/ Connection_receive_return
    \/ Connection_break

ReceiveSpec == ReceiveInit /\ [][ReceiveNext]_vars

(* ------------------------------------------------------------------ *)
(* Claims                                                               *)
(* ------------------------------------------------------------------ *)
Terminal == {"done", "failed"}

\* The first byte of each message sent, in order
TypesSent(out) == [i \in 1..Len(out) |-> HighNibble(out[i][1])]
HasSent(out, type) == \E i \in 1..Len(out) : HighNibble(out[i][1]) = type

\* Conf(OK) and Conf(Internal) as they stand on the wire: 0x40 and 0x42
ConfOK == <<64>>
ConfInternal == <<66>>

\* C1: in an exchange of Send.process with Receive.process where both hold the same
\* key, a responder that is done stores the plaintext the initiator was constructed
\* with, and an initiator that is done has been sent Conf(OK) by the responder.
C1_ExchangeDelivers ==
    (env = "exchange" /\ rcv.key = args.key) =>
        /\ rcv.pc = "done" => rcv.message = args.msg
        /\ snd.pc = "done" =>
              /\ Len(out_recv) = 2
              /\ out_recv[2] = ConfOK
              /\ rcv.pc = "done"

C1_Witness ==
    /\ env = "exchange"
    /\ rcv.key = args.key
    /\ args.msg = Hello
    /\ args.pkcs5
    /\ rcv.pc = "done"
    /\ snd.pc = "done"
    /\ rcv.message = Hello

\* C2: once Send.process has started in an exchange with Receive.process, both
\* processes end (done or failed): neither waits for ever for bytes the other will
\* not send.
C2_BothTerminate ==
    (env = "exchange" /\ snd.pc = "par_req_send")
        ~> (snd.pc \in Terminal /\ rcv.pc \in Terminal)

C2_Witness ==
    /\ env = "exchange"
    /\ rcv.raised = ErrorCodes(DataError)
    /\ rcv.pc = "failed"
    /\ snd.pc = "failed"
    /\ snd.raised = ErrorCodes(DataError)

\* C3: an initiator that has read an iv of sixteen 0x00 bytes has failed with
\* NullIV, has sent Conf(Internal) after its ParReq and has sent no Dados.
C3_NullIVAborts ==
    snd.iv = Repeat(0, 16) =>
        /\ snd.pc = "failed"
        /\ snd.raised = ErrorCodes(NullIV)
        /\ out_send = <<par_req_data(snd), ConfInternal>>

\* C4: a Send constructed with more than 1440 bytes of plaintext has failed with
\* Internal and nothing is sent; one constructed with 1440 bytes or fewer is accepted
\* and the first message of its process is a ParReq.
C4_OversizeRejected ==
    snd.pc \notin {"new", "absent"} =>
        IF Len(args.msg) > 1440
        THEN /\ snd.pc = "failed"
             /\ snd.raised = ErrorCodes(Internal)
             /\ out_send = <<>>
             /\ c2s = <<>>
        ELSE /\ snd.raised_in # "init"
             /\ \/ snd.pc = "par_req_send" /\ out_send = <<>>
                \/ Len(out_send) >= 1 /\ HighNibble(out_send[1][1]) = ParReq

C4_Witness ==
    /\ Len(args.msg) = 1441
    /\ snd.pc = "failed"
    /\ snd.raised = ErrorCodes(Internal)
    /\ out_send = <<>>

\* The message of exactly 1440 bytes goes out: its ParReq is sent.
C4_WitnessLongest ==
    /\ Len(args.msg) = 1440
    /\ Len(out_send) >= 1
    /\ out_send[1] = par_req_data(snd)

\* C5: a responder that has read a ParReq body whose algorithm code is not in 0..5,
\* whose mode code is not 0, 1, 3 or 6, or whose padding flag is not 0 or 1 has
\* failed, and Conf(Internal) is the one message it has sent.
BadParReqBody(body) ==
    \/ HighNibble(body[5]) \notin 0..5
    \/ body[6] \notin {0, 1, 3, 6}
    \/ LowNibble(body[5]) \notin {0, 1}

C5_UnsupportedParamsRejected ==
    (rcv.body # <<>> /\ BadParReqBody(rcv.body)) =>
        /\ rcv.pc = "failed"
        /\ out_recv = <<ConfInternal>>

C5_Witness ==
    /\ rcv.body # <<>>
    /\ rcv.body[5] = 1
    /\ rcv.body[6] = 2
    /\ rcv.pc = "failed"
    /\ out_recv = <<ConfInternal>>

\* C6: an initiator whose first header byte has a type nibble other than ParConf and
\* Lista has failed with UnexpectedType, has sent Conf(Internal) after its ParReq and
\* has sent no Dados.
C6_OtherTypeUnexpected ==
    (snd.header # -1 /\ HighNibble(snd.header) \notin {ParConf, Lista}) =>
        /\ snd.pc = "failed"
        /\ snd.raised = ErrorCodes(UnexpectedType)
        /\ out_send = <<par_req_data(snd), ConfInternal>>

\* C7: an initiator that has read a Lista has failed and has sent nothing after its
\* ParReq.
C7_ListaNoReply ==
    (snd.header # -1 /\ HighNibble(snd.header) = Lista /\ snd.pc \in Terminal) =>
        /\ snd.pc = "failed"
        /\ Len(out_send) = 1

\* C8: an initiator whose encryption failed has sent Conf(Internal) last, has failed,
\* and no message it sent has the type nibble Dados.
C8_EncryptFailureNoDados ==
    snd.raised_in = "dados_send" =>
        /\ snd.pc = "failed"
        /\ out_send[Len(out_send)] = ConfInternal
        /\ ~HasSent(out_send, Dados)

\* C9: an initiator that has read its second header byte is done when the byte is
\* Conf with code OK, has failed with the code carried when it is Conf with a code
\* 1..6, has failed with UnexpectedType when its type nibble is not Conf, and has
\* sent nothing after its Dados.
C9_ConfOutcome ==
    snd.header2 # -1 =>
        LET type == snd.header2 \div 16
            code == snd.header2 % 16
        IN  /\ (type = 4 /\ code = 0) => (snd.pc = "done" /\ snd.raised = NoException)
            /\ (type = 4 /\ code \in 1..6) =>
                  (snd.pc = "failed" /\ snd.raised = [exc |-> "ErrorCodes", code |-> code])
            /\ type # 4 =>
                  (snd.pc = "failed" /\ snd.raised = [exc |-> "ErrorCodes", code |-> 4])
            /\ snd.pc \in Terminal
            /\ TypesSent(out_send) = <<ParReq, Dados>>

C9_Witness ==
    /\ snd.header2 = 70
    /\ snd.pc = "failed"
    /\ snd.raised = ErrorCodes(DataError)
    /\ Len(out_send) = 2

\* C10: a responder whose first header byte has a type nibble other than ParReq has
\* failed, Conf(Internal) is the one message it has sent, and it has read no body.
C10_NotParReqRejected ==
    (rcv.header # -1 /\ rcv.header \div 16 # 0) =>
        /\ rcv.pc = "failed"
        /\ out_recv = <<ConfInternal>>
        /\ rcv.body = <<>>
        /\ rcv.source_id = -1

C10_Witness ==
    /\ rcv.header = 79
    /\ rcv.pc = "failed"
    /\ out_recv = <<ConfInternal>>
    /\ rcv.body = <<>>

\* C11: a responder whose decryption of the Dados payload it read raised (wrong key
\* size, partial block, bad padding) has failed, Conf(DataError) is the message it
\* passed to Connection.send after its ParConf, and unless that send raised on a
\* broken connection its exception is DataError; an initiator that then read the
\* confirmation has failed with DataError; and a responder that sent Conf(OK) holds
\* the plaintext a decryption without exception returned.
DecryptOf(obj) ==
    decrypt(obj.payload, obj.key, obj.iv, obj.algorithm, obj.algorithm_mode, obj.pkcs5)

ConfDataError == <<70>>

C11_DecryptFailureDataError ==
    /\ (rcv.payload # None /\ rcv.pc \in Terminal /\ DecryptOf(rcv).raised # NoException) =>
          /\ rcv.pc = "failed"
          /\ rcv.broken_in = "" => rcv.raised = ErrorCodes(DataError)
          /\ rcv.broken_in # "" => (rcv.broken_in = "send" /\ rcv.raised = RuntimeError)
          /\ Len(out_recv) = 2
          /\ out_recv[2] = ConfDataError
          /\ (env = "exchange" /\ snd.header2 # -1) =>
                (snd.pc = "failed" /\ snd.raised = ErrorCodes(DataError))
    /\ (\E i \in 1..Len(out_recv) : out_recv[i] = ConfOK) =>
          /\ rcv.payload # None
          /\ DecryptOf(rcv).raised = NoException
          /\ rcv.message = DecryptOf(rcv).value

\* The responder holds a 32-byte key for AES128: building the cipher raises.
C11_Witness ==
    /\ env = "exchange"
    /\ rcv.key = Repeat(3, 32)
    /\ rcv.algorithm = "AES128"
    /\ rcv.payload # None
    /\ DecryptOf(rcv).raised = ErrorCodes(NotSupportedParams)
    /\ rcv.raised = ErrorCodes(DataError)
    /\ out_recv[2] = ConfDataError
    /\ snd.pc = "failed"
    /\ snd.raised = ErrorCodes(DataError)

\* C12: a responder whose second header byte has a type nibble other than Dados has
\* failed with UnexpectedType and its ParConf is the one message it has sent.
C12_NotDadosSilent ==
    (rcv.header2 # -1 /\ HighNibble(rcv.header2) # Dados) =>
        /\ rcv.pc = "failed"
        /\ rcv.raised = ErrorCodes(UnexpectedType)
        /\ Len(out_recv) = 1

\* C13: the step in which a transport call of a process raises RuntimeError ends the
\* process as failed with an exception that is no ErrorCodes; when the call was a
\* receive the step passes no message to Connection.send, when it was a send the
\* message that raised is the last one passed; and no later step changes the process
\* or passes another message.
BreaksNow(obj, objNext) == obj.raised # RuntimeError /\ objNext.raised = RuntimeError

C13_TransportFailureFatal ==
    [][/\ BreaksNow(snd, snd') =>
             /\ snd'.pc = "failed"
             /\ ~IsErrorCodes(snd'.raised)
             /\ snd'.broken_in \in {"send", "receive"}
             /\ snd'.broken_in = "receive" => out_send' = out_send
             /\ snd'.broken_in = "send" =>
                   (Len(out_send') = Len(out_send) + 1 /\ c2s' = c2s)
       /\ BreaksNow(rcv, rcv') =>
             /\ rcv'.pc = "failed"
             /\ ~IsErrorCodes(rcv'.raised)
             /\ rcv'.broken_in \in {"send", "receive"}
             /\ rcv'.broken_in = "receive" => out_recv' = out_recv
             /\ rcv'.broken_in = "send" =>
                   (Len(out_recv') = Len(out_recv) + 1 /\ s2c' = s2c)
       /\ snd.raised = RuntimeError => (snd' = snd /\ out_send' = out_send)
       /\ rcv.raised = RuntimeError => (rcv' = rcv /\ out_recv' = out_recv)]_vars

\* The responder's receive of the Dados header raised, and so did the initiator's
\* send of its Dados.
C13_Witness ==
    /\ env = "exchange"
    /\ conn = "broken"
    /\ rcv.raised = RuntimeError
    /\ rcv.raised_in = "dados_recv"
    /\ rcv.broken_in = "receive"
    /\ Len(out_recv) = 1
    /\ snd.raised = RuntimeError
    /\ snd.raised_in = "dados_send"
    /\ snd.broken_in = "send"
    /\ TypesSent(out_send) = <<ParReq, Dados>>

\* C14: in an exchange, the ids, algorithm code, padding flag and mode code the
\* responder decoded from the ParReq are those the initiator was constructed with;
\* the iv the initiator read is the one the responder drew; the Dados length and
\* payload the responder read are the ciphertext the initiator's encrypt returned and
\* its length; and the code the initiator read from the Conf is the code the
\* responder ended with.
C14_CodecRoundTrip ==
    /\ rcv.pc \notin {"par_req_recv", "par_req_recv_body"} =>
          /\ rcv.source_id = args.source_id
          /\ rcv.dest_id = args.dest_id
          /\ rcv.algorithm_code = alg_to_code[args.algorithm[1]]
          /\ rcv.algorithm = args.algorithm[1]
          /\ rcv.pkcs5 = BoolToInt(args.pkcs5)
          /\ rcv.algorithm_mode_code = mode_to_code[args.algorithm[2]]
          /\ rcv.algorithm_mode = args.algorithm[2]
    /\ snd.pc \in {"dados_send", "conf_recv", "done"} => snd.iv = rcv.iv
    /\ rcv.payload_size # -1 =>
          rcv.payload_size = Len(encrypt(args.msg, args.key, rcv.iv, args.algorithm[1],
                                         args.algorithm[2], args.pkcs5).value)
    /\ rcv.payload # None =>
          rcv.payload = encrypt(args.msg, args.key, rcv.iv, args.algorithm[1],
                                args.algorithm[2], args.pkcs5).value
    /\ snd.header2 # -1 =>
          /\ rcv.pc \in Terminal
          /\ rcv.pc = "done" => snd.pc = "done"
          /\ rcv.pc = "failed" => (snd.pc = "failed" /\ snd.raised = rcv.raised)

C14_Witness ==
    /\ rcv.source_id = 65535
    /\ rcv.dest_id = 256
    /\ rcv.algorithm = "AES256"
    /\ rcv.algorithm_mode = "CTR"
    /\ rcv.pkcs5 = 1
    /\ snd.iv = rcv.iv
    /\ rcv.payload_size = 16
    /\ Len(rcv.payload) = 16
    /\ rcv.message = Hello
    /\ snd.header2 = 64
    /\ snd.pc = "done"

\* C15: code_to_alg is defined on 0..5 and alg_to_code undoes it, alg_to_code's names
\* are undone by code_to_alg; code_to_mode is defined on 0, 1, 3 and 6 (not on 2, 4
\* or 5) and mode_to_code undoes it, and code_to_mode undoes mode_to_code; so the
\* name and the code an object holds for its algorithm, and for its mode, are each
\* other's entry in both tables.
NamesMatchCodes(obj) ==
    /\ obj.algorithm_code # -1 =>
          /\ code_to_alg[obj.algorithm_code] = obj.algorithm
          /\ alg_to_code[obj.algorithm] = obj.algorithm_code
    /\ obj.algorithm_mode_code # -1 =>
          /\ code_to_mode[obj.algorithm_mode_code] = obj.algorithm_mode
          /\ mode_to_code[obj.algorithm_mode] = obj.algorithm_mode_code

C15_RegistriesInverse ==
    /\ DOMAIN code_to_alg = 0..5
    /\ \A c \in DOMAIN code_to_alg :
          code_to_alg[c] \in DOMAIN alg_to_code /\ alg_to_code[code_to_alg[c]] = c
    /\ \A n \in DOMAIN alg_to_code :
          alg_to_code[n] \in DOMAIN code_to_alg /\ code_to_alg[alg_to_code[n]] = n
    /\ DOMAIN code_to_mode = {0, 1, 3, 6}
    /\ {2, 4, 5} \cap DOMAIN code_to_mode = {}
    /\ \A c \in DOMAIN code_to_mode :
          code_to_mode[c] \in DOMAIN mode_to_code /\ mode_to_code[code_to_mode[c]] = c
    /\ \A n \in DOMAIN mode_to_code :
          mode_to_code[n] \in DOMAIN code_to_mode /\ code_to_mode[mode_to_code[n]] = n
    /\ NamesMatchCodes(snd)
    /\ NamesMatchCodes(rcv)

\* Both directions at work: the initiator's names went to codes by alg_to_code and
\* mode_to_code, and the responder's codes came back to names by code_to_alg and
\* code_to_mode.
C15_Witness ==
    /\ args.algorithm = <<"3DES-EDE3", "CFB8">>
    /\ snd.algorithm_code = 5
    /\ snd.algorithm_mode_code = 3
    /\ rcv.algorithm_code = 5
    /\ rcv.algorithm_mode_code = 3
    /\ rcv.algorithm = "3DES-EDE3"
    /\ rcv.algorithm_mode = "CFB8"

\* C16: the first byte of every message either process has passed to
\* Connection.send has a type nibble in 0..4 and a code nibble in 0..6.
WellFormedHeaders(out) ==
    \A i \in 1..Len(out) :
        /\ HighNibble(out[i][1]) \in 0..4
        /\ LowNibble(out[i][1]) \in 0..6

C16_HeaderNibblesInRange ==
    /\ WellFormedHeaders(out_send)
    /\ WellFormedHeaders(out_recv)

\* ParReq, Dados(Internal), Conf(Internal) from the initiator and ParConf from the
\* responder, which went on to read the Dados header
C16_Witness ==
    /\ Len(out_send) = 3
    /\ out_send[1][1] = 0
    /\ out_send[2][1] = 34
    /\ out_send[3] = ConfInternal
    /\ Len(out_recv) = 1
    /\ out_recv[1][1] = 16
    /\ rcv.header2 = 34

\* C17: during a call of Connection.receive the bytes taken so far followed by those
\* left on the stream are the stream as it was, and at most msg_size are taken; what
\* it returns is the first msg_size bytes, the rest left on the stream; it raises
\* only with the connection broken and fewer than msg_size bytes delivered, and does
\* raise on the conn.recv made then; with msg_size 0 it returns b'' and calls
\* conn.recv not once.
C17_ReceiveExact ==
    /\ [](/\ call.msg \o c2s = call.stream
          /\ Len(call.msg) <= call.msg_size
          /\ call.pc = "returned" =>
                /\ call.msg = SubSeq(call.stream, 1, call.msg_size)
                /\ c2s = SubSeq(call.stream, call.msg_size + 1, Len(call.stream))
          /\ call.pc = "raised" =>
                /\ conn = "broken"
                /\ Len(call.stream) < call.msg_size
                /\ c2s = <<>>
          /\ call.msg_size = 0 =>
                (call.pc \in {"loop", "returned"} /\ call.reads = 0 /\ call.msg = <<>>))
    /\ [][(/\ call.pc = "loop"
           /\ conn = "broken"
           /\ c2s = <<>>
           /\ Len(call.msg) < call.msg_size) => call'.pc = "raised"]_vars

\* 2049 bytes returned of 2051 in two chunks or more, and two bytes left
C17_Witness ==
    /\ call.pc = "returned"
    /\ call.msg_size = MaxChunk + 1
    /\ Len(call.stream) = MaxChunk + 3
    /\ call.reads = MaxReadsCounted
    /\ call.msg = Pattern(MaxChunk + 1)
    /\ Len(c2s) = 2

\* C18: an initiator that has read a Lista payload of whole two-byte entries, each
\* with a registered algorithm code in the high nibble of its first byte and a
\* registered mode code (0, 1, 3 or 6) as its second byte, holds one option per
\* entry, in order: the algorithm's name, padding true exactly for a low nibble of 1,
\* and the mode's name.
ListaEntriesRegistered(payload) ==
    /\ Len(payload) % 2 = 0
    /\ \A pos \in 1..(Len(payload) \div 2) :
          /\ HighNibble(payload[2 * pos - 1]) \in 0..5
          /\ payload[2 * pos] \in {0, 1, 3, 6}

ListaOptions(payload) ==
    [pos \in 1..(Len(payload) \div 2) |->
        [algorithm |-> code_to_alg[HighNibble(payload[2 * pos - 1])],
         padding |-> (LowNibble(payload[2 * pos - 1]) = 1),
         algorithm_mode |-> code_to_mode[payload[2 * pos]]]]

C18_ListaDecoded ==
    (/\ snd.raised_in = "lista_recv_payload"
     /\ snd.payload # None
     /\ ListaEntriesRegistered(snd.payload)) =>
        /\ snd.raised # KeyError
        /\ Len(snd.recv_list) = Len(snd.payload) \div 2
        /\ snd.recv_list = ListaOptions(snd.payload)

\* C19: the first message the initiator passes to Connection.send is a ParReq, once
\* its process has started there is exactly one, and there is at most one Dados, the
\* second message, passed only with the header ParConf(OK) and 16 iv bytes read; the
\* responder passes at most one ParConf, only with the header ParReq(OK) and a body
\* of six bytes with registered codes read, and passes Conf(OK) only with the header
\* Dados(OK), the length and a payload of that length read and decrypted.
CountType(out, type) == Cardinality({i \in 1..Len(out) : HighNibble(out[i][1]) = type})

C19_ProtocolOrder ==
    /\ out_send # <<>> => HighNibble(out_send[1][1]) = ParReq
    /\ CountType(out_send, ParReq) <= 1
    /\ snd.pc \notin {"new", "absent", "par_req_send"} /\ snd.raised_in # "init" =>
          CountType(out_send, ParReq) = 1
    /\ CountType(out_send, Dados) <= 1
    /\ HasSent(out_send, Dados) =>
          /\ HighNibble(out_send[2][1]) = Dados
          /\ snd.header = 16
          /\ Len(snd.iv) = 16
    /\ CountType(out_recv, ParConf) <= 1
    /\ HasSent(out_recv, ParConf) =>
          /\ HighNibble(out_recv[1][1]) = ParConf
          /\ rcv.header = 0
          /\ Len(rcv.body) = 6
          /\ ~BadParReqBody(rcv.body)
    /\ (\E i \in 1..Len(out_recv) : out_recv[i] = ConfOK) =>
          /\ out_recv[2] = ConfOK
          /\ HighNibble(out_recv[1][1]) = ParConf
          /\ rcv.header2 = 32
          /\ rcv.payload # None
          /\ Len(rcv.payload) = rcv.payload_size
          /\ rcv.message # None

C19_Witness ==
    /\ env = "exchange"
    /\ snd.pc = "done"
    /\ rcv.pc = "done"
    /\ TypesSent(out_send) = <<ParReq, Dados>>
    /\ TypesSent(out_recv) = <<ParConf, Conf>>
    /\ c2s = <<>>
    /\ s2c = <<>>

\* C20: a responder whose second header byte is Dados with a code 1..6 has failed
\* with that code, its ParConf is the one message it has passed to Connection.send,
\* it has read no length and no payload, and it holds no plaintext; in an exchange
\* the two length bytes the initiator sent after that header are still on the stream.
C20_DadosErrorNoConf ==
    (/\ rcv.header2 # -1
     /\ HighNibble(rcv.header2) = Dados
     /\ LowNibble(rcv.header2) \in 1..6) =>
        /\ rcv.pc = "failed"
        /\ rcv.raised = ErrorCodes(LowNibble(rcv.header2))
        /\ Len(out_recv) = 1
        /\ HighNibble(out_recv[1][1]) = ParConf
        /\ rcv.payload_size = -1
        /\ rcv.payload = None
        /\ rcv.message = None
        /\ env = "exchange" =>
              /\ Len(c2s) >= 2
              /\ SubSeq(c2s, 1, 2) = SubSeq(out_send[2], 2, 3)

\* The initiator's encryption failed and it sent Dados(Internal) with length 0 and
\* Conf(Internal): the responder stopped at the Dados header.
C20_Witness ==
    /\ env = "exchange"
    /\ rcv.header2 = 34
    /\ rcv.pc = "failed"
    /\ rcv.raised = ErrorCodes(Internal)
    /\ Len(out_recv) = 1
    /\ c2s = <<0, 0, 66>>

\* C21: in an exchange, a responder that has decrypted a Dados payload holds the
\* source id, destination id, algorithm, mode and padding flag the initiator holds,
\* and the iv it drew in par_conf_send is the iv the initiator holds and encrypted
\* the payload with.
C21_ParametersAgree ==
    (env = "exchange" /\ rcv.payload # None) =>
        /\ rcv.source_id = snd.source_id
        /\ rcv.dest_id = snd.dest_id
        /\ rcv.algorithm = snd.algorithm
        /\ rcv.algorithm_code = snd.algorithm_code
        /\ rcv.algorithm_mode = snd.algorithm_mode
        /\ rcv.algorithm_mode_code = snd.algorithm_mode_code
        /\ rcv.pkcs5 = BoolToInt(snd.pkcs5)
        /\ Len(rcv.iv) = 16
        /\ rcv.iv = snd.iv
        /\ out_recv[1] = Header(ParConf, OK) \o snd.iv
        /\ rcv.payload = encrypt(snd.message, snd.key, rcv.iv, rcv.algorithm,
                                 rcv.algorithm_mode, snd.pkcs5).value

\* The two ends hold different keys and the ids 65535 and 258; the parameters and
\* the iv agree all the same.
C21_Witness ==
    /\ env = "exchange"
    /\ rcv.payload # None
    /\ rcv.key # snd.key
    /\ rcv.source_id = 65535
    /\ rcv.dest_id = 258
    /\ rcv.algorithm = "AES128"
    /\ rcv.algorithm_mode = "CBC"
    /\ rcv.pkcs5 = 1
    /\ rcv.iv = [i \in 1..16 |-> 17 * i - 17]
    /\ snd.iv = rcv.iv

\* C22: a responder that has read its first header byte and has ended without a
\* transport failure has passed a message to Connection.send: a ParConf or a Conf.
C22_FirstHeaderAnswered ==
    (rcv.header # -1 /\ rcv.pc \in Terminal /\ rcv.broken_in = "") =>
        /\ out_recv # <<>>
        /\ HighNibble(out_recv[1][1]) \in {ParConf, Conf}

\* C23: an initiator that has failed has not failed with ErrorCodes(OK).
C23_NoFailureWithOK ==
    snd.pc = "failed" => snd.raised # ErrorCodes(OK)

\* C24: of the messages a process has passed to Connection.send at most one is a
\* Conf, and it is the last; the process has ended by then, and no later step passes
\* another message.
ConfLast(out, obj) ==
    /\ CountType(out, Conf) <= 1
    /\ HasSent(out, Conf) =>
          /\ HighNibble(out[Len(out)][1]) = Conf
          /\ obj.pc \in Terminal

C24_ConfOnceAndLast ==
    /\ [](ConfLast(out_send, snd) /\ ConfLast(out_recv, rcv))
    /\ [][/\ HasSent(out_send, Conf) => out_send' = out_send
          /\ HasSent(out_recv, Conf) => out_recv' = out_recv]_vars

\* The initiator's Conf(Internal) follows its ParReq and its Dados(Internal), and the
\* responder, stopped by that Dados header, has sent its ParConf alone.
C24_Witness ==
    /\ env = "exchange"
    /\ TypesSent(out_send) = <<ParReq, Dados, Conf>>
    /\ out_send[3] = ConfInternal
    /\ snd.pc = "failed"
    /\ TypesSent(out_recv) = <<ParConf>>
    /\ rcv.pc = "failed"

====
